---- MODULE Spec2Model ----
(***************************************************************************)
(* Model of slic3r/Utils/AppUpdater: the background application updater.   *)
(* One owner thread calls sync_download / sync_version / cancel /          *)
(* set_dest_path / ~AppUpdater; each sync call joins the previous worker   *)
(* thread and spawns a new one, which drives Http::get and then either     *)
(* stages the downloaded file or parses the version file.                  *)
(*                                                                         *)
(* Strings are sequences of one-character strings; "LF" and "CR" stand for *)
(* the characters '\n' and '\r'.  Positions are 0-based as in std::string, *)
(* npos is -1.                                                             *)
(***************************************************************************)
EXTENDS Integers, Sequences, FiniteSets, TLC

(***************************************************************************)
(* Bounds of the model.                                                    *)
(***************************************************************************)
\* number of worker threads the owner may spawn in one behaviour
MaxTasks == 2
\* number of progress callbacks the transport issues in one transfer (Spec)
MaxProgress == 1
\* number of progress callbacks in one transfer (SpecProgress)
MaxSamples == 4
\* number of lines after the first line of a version body (SpecParse)
MaxLines == 2

(***************************************************************************)
(* std::string helpers.                                                    *)
(***************************************************************************)
npos == -1

Min(a, b) == IF a < b THEN a ELSE b

RECURSIVE find_first_of(_, _, _)
find_first_of(s, chars, pos) ==
    IF pos >= Len(s) THEN npos
    ELSE IF s[pos + 1] \in chars THEN pos
    ELSE find_first_of(s, chars, pos + 1)

RECURSIVE rfind(_, _, _)
rfind(s, c, pos) ==
    IF pos < 0 THEN npos
    ELSE IF s[pos + 1] = c THEN pos
    ELSE rfind(s, c, pos - 1)

\* s.substr(pos, n)
substr(s, pos, n) == SubSeq(s, pos + 1, Min(pos + n, Len(s)))

\* s.substr(pos)
substr_from(s, pos) == SubSeq(s, pos + 1, Len(s))

Digits == <<"0", "1", "2", "3", "4", "5", "6", "7", "8", "9">>

DigitSet == {Digits[i] : i \in 1..10}

DigitValue(c) == (CHOOSE i \in 1..10 : Digits[i] = c) - 1

\* std::to_string of a non-negative integer
RECURSIVE to_string(_)
to_string(n) ==
    IF n < 10 THEN <<Digits[n + 1]>>
    ELSE to_string(n \div 10) \o <<Digits[(n % 10) + 1]>>

Whitespace == {" ", "LF", "CR"}

\* boost::trim: drop leading and trailing whitespace
RECURSIVE trim_left(_)
trim_left(s) ==
    IF s # <<>> /\ Head(s) \in Whitespace THEN trim_left(Tail(s)) ELSE s

RECURSIVE trim_right(_)
trim_right(s) ==
    IF s # <<>> /\ s[Len(s)] \in Whitespace
    THEN trim_right(SubSeq(s, 1, Len(s) - 1)) ELSE s

trim(s) == trim_right(trim_left(s))

(***************************************************************************)
(* Semver (libslic3r): major.minor.patch with an optional -prerelease tag, *)
(* totally ordered; a release is greater than its prereleases.             *)
(***************************************************************************)
Letters == <<"a", "b", "e", "h", "l", "p", "t", "x">>

LetterSet == {Letters[i] : i \in 1..Len(Letters)}

\* character code used to compare prerelease tags (digits before letters)
CharCode(c) ==
    IF c \in DigitSet THEN DigitValue(c)
    ELSE 10 + (CHOOSE i \in 1..Len(Letters) : Letters[i] = c)

RECURSIVE IsNumber(_)
IsNumber(s) ==
    IF s = <<>> THEN FALSE
    ELSE /\ Head(s) \in DigitSet
         /\ (Len(s) = 1 \/ IsNumber(Tail(s)))

RECURSIVE NumberValue(_)
NumberValue(s) ==
    IF Len(s) = 1 THEN DigitValue(s[1])
    ELSE 10 * NumberValue(SubSeq(s, 1, Len(s) - 1)) + DigitValue(s[Len(s)])

IsTag(s) == s # <<>> /\ \A i \in 1..Len(s) : s[i] \in DigitSet \cup LetterSet

NoSemver == [valid |-> FALSE, major |-> 0, minor |-> 0, patch |-> 0, prerelease |-> <<>>]

Semver_of(s) ==
    LET dash == find_first_of(s, {"-"}, 0)
        core == IF dash = npos THEN s ELSE substr(s, 0, dash)
        pre  == IF dash = npos THEN <<>> ELSE substr_from(s, dash + 1)
        dot1 == find_first_of(core, {"."}, 0)
        dot2 == IF dot1 = npos THEN npos ELSE find_first_of(core, {"."}, dot1 + 1)
        maj  == substr(core, 0, dot1)
        mnr  == substr(core, dot1 + 1, dot2 - dot1 - 1)
        pat  == substr_from(core, dot2 + 1)
    IN  IF /\ dot1 # npos
           /\ dot2 # npos
           /\ IsNumber(maj) /\ IsNumber(mnr) /\ IsNumber(pat)
           /\ (dash = npos \/ IsTag(pre))
        THEN [valid |-> TRUE, major |-> NumberValue(maj), minor |-> NumberValue(mnr),
              patch |-> NumberValue(pat), prerelease |-> pre]
        ELSE NoSemver

\* Semver::parse; an invalid text gives NoSemver
Semver_parse(text) == CHOOSE ver \in {Semver_of(s) : s \in {text}} : TRUE

RECURSIVE TagLess(_, _)
TagLess(a, b) ==
    IF b = <<>> THEN FALSE
    ELSE IF a = <<>> THEN TRUE
    ELSE IF CharCode(Head(a)) # CharCode(Head(b)) THEN CharCode(Head(a)) < CharCode(Head(b))
    ELSE TagLess(Tail(a), Tail(b))

\* Semver::operator<
Semver_less(a, b) ==
    IF a.major # b.major THEN a.major < b.major
    ELSE IF a.minor # b.minor THEN a.minor < b.minor
    ELSE IF a.patch # b.patch THEN a.patch < b.patch
    ELSE IF a.prerelease = <<>> THEN FALSE
    ELSE IF b.prerelease = <<>> THEN TRUE
    ELSE TagLess(a.prerelease, b.prerelease)

(***************************************************************************)
(* AppUpdater::priv::parse_version_string.  The value is the sequence of   *)
(* events the call queues to the application.                              *)
(***************************************************************************)
EVT_SLIC3R_VERSION_ONLINE == "EVT_SLIC3R_VERSION_ONLINE"
EVT_SLIC3R_EXPERIMENTAL_VERSION_ONLINE == "EVT_SLIC3R_EXPERIMENTAL_VERSION_ONLINE"
EVT_SLIC3R_APP_DOWNLOAD_PROGRESS == "EVT_SLIC3R_APP_DOWNLOAD_PROGRESS"

Event(type, str) == [type |-> type, str |-> str]

Newline == {"LF", "CR"}

ALPHA == <<"a", "l", "p", "h", "a", "=">>
BETA == <<"b", "e", "t", "a", "=">>

\* the body of the while loop after `line` is cut out: the alpha / beta branches
\* faulty variant: an invalid prerelease line is skipped instead of ending the parse
scan_line_skip_invalid(line, prerelease_versions) ==
    IF substr(line, 0, 6) = ALPHA
    THEN IF ~Semver_parse(substr_from(line, 6)).valid
         THEN [ok |-> TRUE, vers |-> prerelease_versions]
         ELSE [ok |-> TRUE, vers |-> Append(prerelease_versions, substr_from(line, 6))]
    ELSE IF substr(line, 0, 5) = BETA
    THEN IF ~Semver_parse(substr_from(line, 5)).valid
         THEN [ok |-> TRUE, vers |-> prerelease_versions]
         ELSE [ok |-> TRUE, vers |-> Append(prerelease_versions, substr_from(line, 5))]
    ELSE [ok |-> TRUE, vers |-> prerelease_versions]

scan_line(line, prerelease_versions) ==
    IF substr(line, 0, 6) = ALPHA
    THEN IF ~Semver_parse(substr_from(line, 6)).valid
         THEN [ok |-> FALSE, vers |-> prerelease_versions]
         ELSE [ok |-> TRUE, vers |-> Append(prerelease_versions, substr_from(line, 6))]
    ELSE IF substr(line, 0, 5) = BETA
    THEN IF ~Semver_parse(substr_from(line, 5)).valid
         THEN [ok |-> FALSE, vers |-> prerelease_versions]
         ELSE [ok |-> TRUE, vers |-> Append(prerelease_versions, substr_from(line, 5))]
    ELSE [ok |-> TRUE, vers |-> prerelease_versions]

\* one iteration of the while loop: the position of the next line break and
\* what the alpha / beta branches make of the line before it
loop_iteration(body, nexn_nl_pos, prerelease_versions) ==
    LET last_nl_pos == nexn_nl_pos
        next_pos == find_first_of(body, Newline, last_nl_pos + 1)
        line == IF next_pos = npos
                THEN substr_from(body, last_nl_pos + 1)
                ELSE substr(body, last_nl_pos + 1, next_pos - last_nl_pos - 1)
    IN  [nexn_nl_pos |-> next_pos, scanned |-> scan_line(line, prerelease_versions)]

\* the while loop over the lines after the first one.  (Each iteration is bound
\* as a value, by CHOOSE over a one-element set, before the loop goes on.)
RECURSIVE scan_lines(_, _, _)
scan_lines(body, nexn_nl_pos, prerelease_versions) ==
    IF nexn_nl_pos # npos /\ Len(body) > nexn_nl_pos + 1
    THEN CHOOSE result \in
            { IF it.scanned.ok
              THEN scan_lines(body, it.nexn_nl_pos, it.scanned.vers)
              ELSE it.scanned :
                it \in {loop_iteration(body, nexn_nl_pos, prerelease_versions)} } : TRUE
    ELSE [ok |-> TRUE, vers |-> prerelease_versions]

\* faulty variant: the comparison with the release version is left out
recent_step_any(release_version, ver_string, acc) ==
    LET ver == Semver_parse(ver_string)
    IN  IF /\ ver.valid
           /\ ((acc.recent_version.valid /\ Semver_less(acc.recent_version, ver))
               \/ ~acc.recent_version.valid)
        THEN [recent_version |-> ver, version |-> ver_string]
        ELSE acc

recent_step(release_version, ver_string, acc) ==
    LET ver == Semver_parse(ver_string)
    IN  IF /\ ver.valid
           /\ Semver_less(release_version, ver)
           /\ ((acc.recent_version.valid /\ Semver_less(acc.recent_version, ver))
               \/ ~acc.recent_version.valid)
        THEN [recent_version |-> ver, version |-> ver_string]
        ELSE acc

RECURSIVE find_recent(_, _, _, _)
find_recent(release_version, prerelease_versions, i, acc) ==
    IF i > Len(prerelease_versions) THEN acc
    ELSE CHOOSE result \in
            { find_recent(release_version, prerelease_versions, i + 1, next_acc) :
                next_acc \in {recent_step(release_version, prerelease_versions[i], acc)} } : TRUE

\* the release version string: the body up to its first line break
\* faulty variant: the whole body is taken
release_line_whole_body(body) == body

release_line(body) ==
    LET first_nl_pos == find_first_of(body, Newline, 0)
    IN  IF first_nl_pos # npos THEN substr(body, 0, first_nl_pos) ELSE body

\* whether parse_version_string goes on after parsing the release version
\* faulty variant: the result of Semver::parse is not looked at
release_accepted_always(release_version) == TRUE

release_accepted(release_version) == release_version.valid

\* the events of one parse_version_string in the order of their QueueEvent calls:
\* the release event before the alpha / beta lines are read, the experimental
\* one at the end
\* faulty variant: the release event is queued at the end, after the experimental one
queued_in_order_release_last(evt, experimental) == experimental \o <<evt>>

queued_in_order(evt, experimental) == <<evt>> \o experimental

parse_version_string(body) ==
    LET first_nl_pos == find_first_of(body, Newline, 0)
        version == release_line(body)
        release_version == Semver_parse(version)
    IN  IF ~release_accepted(release_version) THEN <<>>
        ELSE LET evt == Event(EVT_SLIC3R_VERSION_ONLINE, version)
                 scan == scan_lines(body, first_nl_pos, <<>>)
             IN  IF ~scan.ok THEN <<evt>>
                 ELSE LET r == find_recent(release_version, scan.vers, 1,
                                   [recent_version |-> NoSemver, version |-> version])
                      IN  IF r.recent_version.valid
                          THEN queued_in_order(evt,
                                   <<Event(EVT_SLIC3R_EXPERIMENTAL_VERSION_ONLINE, r.version)>>)
                          ELSE queued_in_order(evt, <<>>)

(***************************************************************************)
(* Inputs and the environment.                                             *)
(***************************************************************************)
\* download URLs
Urls == {<<"h", "/", "f">>}

VersionUrl == <<"h", "/", "v">>

\* values of set_dest_path's argument
UserPaths == {<<>>, <<"u">>}

\* boost::filesystem::path(data_dir()) / "cache"
m_default_dest_folder == <<"d", "/", "c">>

\* get_current_pid()
Pid == 7

\* response bodies of a download
DownloadBodies == {<<"x">>}

Platforms == {"win32", "linux", "apple"}

\* Http::Progress: the fields the updater reads
Progress(dlnow, dltotal) == [dlnow |-> dlnow, dltotal |-> dltotal]

\* samples of the transport in Spec: 0 %, 50 % and 100 %
ProgressValues == {Progress(0, 0), Progress(1, 2), Progress(2, 2)}

\* version bodies the server returns in Spec
VersionBodies ==
    { <<"1", ".", "2", ".", "3">>,
      <<"1", ".", "2", ".", "3", "LF">> \o BETA \o <<"1", ".", "3", ".", "0", "-", "b", "LF">>,
      <<"x">> }

VARIABLES
    platform,         \* the platform the program is built for
    owner,            \* where the owner thread is
    owner_arg,        \* the argument of the sync call that is waiting in join()
    m_thread,         \* priv::m_thread: 0 when not joinable, else the thread id
    m_cancel,         \* priv::m_cancel
    m_user_dest_path, \* priv::m_user_dest_path
    thr,              \* the threads spawned so far, by id: locals and position
    fs,               \* the file system: path -> content
    queue,            \* the events queued to the application (wxGetApp().QueueEvent)
    launched          \* the launcher calls made, and the commands run_file executed

vars == <<platform, owner, owner_arg, m_thread, m_cancel, m_user_dest_path,
          thr, fs, queue, launched>>

NoArg == [kind |-> "none"]

\* no file stream has been opened
NoIo == [open |-> FALSE, written |-> 0, rename |-> FALSE, used |-> FALSE]

NoThreadArg == [kind |-> "none", url |-> <<>>, start_after |-> FALSE]

DownloadAppData(url, start_after) ==
    [kind |-> "download", url |-> url, start_after |-> start_after]

VersionArg(url) == [kind |-> "version", url |-> url, start_after |-> FALSE]

\* a thread object just constructed from the lambda of sync_download / sync_version
NewThread(arg) ==
    [kind |-> arg.kind, url |-> arg.url, start_after |-> arg.start_after,
     pc |-> IF arg.kind = "download" THEN "download_file" ELSE "perform",
     dest_path |-> <<>>, last_gui_progress |-> 0, samples |-> <<>>,
     cancel |-> FALSE, res |-> FALSE, error_message |-> "",
     body |-> <<>>, io |-> NoIo, result |-> <<>>]

\* a thread whose function has returned: its locals and captures are gone
Finished == [NewThread(NoThreadArg) EXCEPT !.pc = "finished"]

Threads == DOMAIN thr

Running(t) == thr[t].pc # "finished"

\* m_thread.joinable()
\* faulty variant: the previous thread is never seen as joinable, so it is not joined
joinable_never == FALSE

joinable == m_thread # 0

\* m_thread.join() returns once the thread function has returned
\* faulty variant: join() returns although the thread is still running
join_returns_early == TRUE

join_returns == thr[m_thread].pc = "finished"

Init ==
    /\ platform \in Platforms
    /\ owner = "idle"
    /\ owner_arg = NoArg
    /\ m_thread = 0
    /\ m_cancel = FALSE
    /\ m_user_dest_path = <<>>
    /\ thr = <<>>
    /\ fs = <<>>
    /\ queue = <<>>
    /\ launched = <<>>

(***************************************************************************)
(* The owner thread.                                                       *)
(***************************************************************************)
\* m_cancel = false; m_thread = std::thread(...)
\* faulty variant: the cancel flag is not cleared before the thread is started
Spawn_keeps_cancel(arg) ==
    /\ m_cancel' = m_cancel
    /\ thr' = Append(thr, NewThread(arg))
    /\ m_thread' = Len(thr) + 1
    /\ owner' = "idle"
    /\ owner_arg' = NoArg

Spawn(arg) ==
    /\ m_cancel' = FALSE
    /\ thr' = Append(thr, NewThread(arg))
    /\ m_thread' = Len(thr) + 1
    /\ owner' = "idle"
    /\ owner_arg' = NoArg

\* the sync call up to join(), or the whole call when there is nothing to join
SyncBegin(arg, waiting) ==
    /\ owner = "idle"
    /\ Len(thr) < MaxTasks
    /\ IF joinable
       THEN /\ m_cancel' = TRUE
            /\ owner' = waiting
            /\ owner_arg' = arg
            /\ UNCHANGED <<m_thread, thr>>
       ELSE Spawn(arg)
    /\ UNCHANGED <<platform, m_user_dest_path, fs, queue, launched>>

\* join() returns and the sync call runs to its end
SyncJoined(waiting) ==
    /\ owner = waiting
    /\ join_returns
    /\ Spawn(owner_arg)
    /\ UNCHANGED <<platform, m_user_dest_path, fs, queue, launched>>

sync_download(input_data) == SyncBegin(input_data, "sync_download_join")

sync_download_joined == SyncJoined("sync_download_join")

sync_version(version_check_url) == SyncBegin(VersionArg(version_check_url), "sync_version_join")

sync_version_joined == SyncJoined("sync_version_join")

cancel ==
    /\ owner = "idle"
    /\ m_cancel' = TRUE
    /\ UNCHANGED <<platform, owner, owner_arg, m_thread, m_user_dest_path,
                   thr, fs, queue, launched>>

\* the argument of a set_dest_path whose assignment is under way
DestArg(dest) == [kind |-> "dest", dest |-> dest]

\* set_dest_path up to the assignment to m_user_dest_path: the field is a
\* plain boost::filesystem::path, and nothing makes the call wait for the worker
set_dest_path(dest) ==
    /\ owner = "idle"
    /\ owner' = "set_dest_path"
    /\ owner_arg' = DestArg(dest)
    /\ UNCHANGED <<platform, m_thread, m_cancel, m_user_dest_path,
                   thr, fs, queue, launched>>

\* the assignment is complete and set_dest_path returns
set_dest_path_assigned ==
    /\ owner = "set_dest_path"
    /\ m_user_dest_path' = owner_arg.dest
    /\ owner' = "idle"
    /\ owner_arg' = NoArg
    /\ UNCHANGED <<platform, m_thread, m_cancel, thr, fs, queue, launched>>

\* ~AppUpdater up to join(), or the whole destructor when there is nothing to join
destructor ==
    /\ owner = "idle"
    /\ IF joinable
       THEN /\ m_cancel' = TRUE
            /\ owner' = "destructor_join"
       ELSE /\ owner' = "destroyed"
            /\ UNCHANGED m_cancel
    /\ UNCHANGED <<platform, owner_arg, m_thread, m_user_dest_path,
                   thr, fs, queue, launched>>

destructor_joined ==
    /\ owner = "destructor_join"
    /\ join_returns
    /\ owner' = "destroyed"
    /\ m_thread' = 0
    /\ UNCHANGED <<platform, owner_arg, m_cancel, m_user_dest_path,
                   thr, fs, queue, launched>>

(***************************************************************************)
(* The worker thread: download_file.                                       *)
(***************************************************************************)
\* faulty variant: the file name starts after the first '/'
get_filename_from_url_first_slash(url) ==
    LET slash == find_first_of(url, {"/"}, 0)
    IN  IF slash # npos THEN substr_from(url, slash + 1) ELSE url

get_filename_from_url(url) ==
    LET slash == rfind(url, "/", Len(url) - 1)
    IN  IF slash # npos THEN substr_from(url, slash + 1) ELSE url

\* boost::filesystem::path::operator/ : appending an empty path changes nothing
PathJoin(folder, name) ==
    IF name = <<>> THEN folder ELSE folder \o <<"/">> \o name

\* dest_path as download_file resolves it: `checked` is what m_user_dest_path.empty()
\* reads of the field, `copied` what dest_path = m_user_dest_path reads of it
resolve_dest_path(checked, copied, url) ==
    IF checked # <<>> THEN copied
    ELSE PathJoin(m_default_dest_folder, get_filename_from_url(url))

\* tmp_path += format(".%1%%2%", get_current_pid(), ".download")
tmp_path_of(dest_path) ==
    dest_path \o <<".">> \o to_string(Pid) \o <<".", "d", "o", "w", "n", "l", "o", "a", "d">>

\* size_t gui_progress = progress.dltotal > 0 ? 100 * progress.dlnow / progress.dltotal : 0
gui_progress_of(progress) ==
    IF progress.dltotal > 0 THEN (100 * progress.dlnow) \div progress.dltotal ELSE 0

\* (last_gui_progress != 0 || gui_progress != 100): the sample is not a 100
\* that comes while last_gui_progress is still 0
\* faulty variant: a 100 is let through while last_gui_progress is still 0
not_initial_100_always(last_gui_progress, gui_progress) == TRUE

not_initial_100(last_gui_progress, gui_progress) ==
    last_gui_progress # 0 \/ gui_progress # 100

\* the condition under which the on_progress lambda of download_file queues an event
\* faulty variant: the same percentage is published again
should_publish_le(last_gui_progress, gui_progress) ==
    /\ last_gui_progress <= gui_progress
    /\ not_initial_100(last_gui_progress, gui_progress)

should_publish(last_gui_progress, gui_progress) ==
    /\ last_gui_progress < gui_progress
    /\ not_initial_100(last_gui_progress, gui_progress)

\* what the file system does to the three calls of the on_complete lambda:
\* whether the fstream opens, how many bytes of the body reach the file, and
\* whether rename() succeeds
IoOutcomes(body) ==
    {io \in [open : BOOLEAN, written : 0..Len(body), rename : BOOLEAN, used : {TRUE}] :
        ~io.open => io.written = 0}

FsPut(f, path, file) ==
    [p \in DOMAIN f \cup {path} |-> IF p = path THEN file ELSE f[p]]

FsRemove(f, path) == [p \in DOMAIN f \ {path} |-> f[p]]

\* the on_complete lambda of download_file: the returned flag and the file system after it.
\* The fstream has no exception mask: a failed open or write only sets its
\* state bits; rename() throws when it fails, and it fails when tmp_path is missing.
stage_file(f, dest_path, body, io) ==
    LET tmp_path == tmp_path_of(dest_path)
        f1 == IF io.open
              THEN FsPut(f, tmp_path, SubSeq(body, 1, io.written))
              ELSE f
    IN  IF io.rename /\ tmp_path \in DOMAIN f1
        THEN [res |-> TRUE, fs |-> FsPut(FsRemove(f1, tmp_path), dest_path, f1[tmp_path])]
        ELSE [res |-> FALSE, fs |-> f1]

\* http_get_file has returned `res`: download_file returns, or version_check does
AfterHttp(r) ==
    IF r.kind = "download"
    THEN [r EXCEPT !.pc = "returned", !.result = IF r.res THEN r.dest_path ELSE <<>>]
    ELSE Finished

\* the values a read of m_user_dest_path by the worker can yield: the field,
\* or, when the read races with the assignment of set_dest_path (a data race
\* on a non-atomic object), the value before the assignment or the one after it
read_user_dest_path ==
    IF owner = "set_dest_path"
    THEN {m_user_dest_path, owner_arg.dest}
    ELSE {m_user_dest_path}

\* if (dest_path.empty()) return boost::filesystem::path()
\* faulty variant: an empty dest_path is not rejected
dest_path_rejected_never(dest_path) == FALSE

dest_path_rejected(dest_path) == dest_path = <<>>

\* download_file up to the call of http_get_file.  The assert on dest_path is
\* compiled out of the builds that define NDEBUG, the ones modelled here
download_file_begin(t) ==
    /\ thr[t].pc = "download_file"
    /\ \E checked \in read_user_dest_path, copied \in read_user_dest_path :
          LET dest_path == resolve_dest_path(checked, copied, thr[t].url)
          IN  thr' = [thr EXCEPT ![t] =
                        IF dest_path_rejected(dest_path)
                        THEN [@ EXCEPT !.pc = "returned", !.dest_path = dest_path,
                                       !.result = <<>>]
                        ELSE [@ EXCEPT !.pc = "perform", !.dest_path = dest_path]]
    /\ UNCHANGED <<platform, owner, owner_arg, m_thread, m_cancel, m_user_dest_path,
                   fs, queue, launched>>

\* cancel = this->m_cancel in the on_progress lambda of http_get_file
\* faulty variant: the flag is not handed to the transport
read_cancel_never(flag) == FALSE

read_cancel(flag) == flag

\* Http: the transfer is aborted, and neither on_error nor on_complete is called,
\* when a progress callback leaves its cancel argument set
transport_aborts(cancel_arg) == cancel_arg

\* one progress callback of the transport: the on_progress lambda of http_get_file,
\* which calls the progress_fn of download_file or of version_check
http_progress(t, progress, limit) ==
    /\ thr[t].pc = "perform"
    /\ Len(thr[t].samples) < limit
    /\ LET cancel_flag == read_cancel(m_cancel)
           gui_progress == gui_progress_of(progress)
           publish == /\ thr[t].kind = "download"
                      /\ should_publish(thr[t].last_gui_progress, gui_progress)
           r == [thr[t] EXCEPT
                   !.samples = Append(@, progress),
                   !.cancel = cancel_flag,
                   !.last_gui_progress = IF publish THEN gui_progress ELSE @,
                   !.error_message = IF cancel_flag THEN "Download was canceled." ELSE @]
       IN  /\ thr' = [thr EXCEPT ![t] = IF transport_aborts(cancel_flag) THEN AfterHttp(r) ELSE r]
           /\ queue' = IF publish
                       THEN Append(queue, Event(EVT_SLIC3R_APP_DOWNLOAD_PROGRESS,
                                                to_string(gui_progress)))
                       ELSE queue
    /\ UNCHANGED <<platform, owner, owner_arg, m_thread, m_cancel, m_user_dest_path,
                   fs, launched>>

\* the transfer fails (network, HTTP status, size limit): on_error
http_error(t) ==
    /\ thr[t].pc = "perform"
    /\ thr' = [thr EXCEPT ![t] = AfterHttp([@ EXCEPT !.error_message = "Error getting"])]
    /\ UNCHANGED <<platform, owner, owner_arg, m_thread, m_cancel, m_user_dest_path,
                   fs, queue, launched>>

\* the transfer of a download succeeds: on_complete stages the file
http_complete_download(t, body, io) ==
    /\ thr[t].pc = "perform"
    /\ thr[t].kind = "download"
    /\ LET staged == stage_file(fs, thr[t].dest_path, body, io)
       IN  /\ fs' = staged.fs
           /\ thr' = [thr EXCEPT ![t] =
                        AfterHttp([@ EXCEPT !.body = body, !.io = io, !.res = staged.res])]
    /\ UNCHANGED <<platform, owner, owner_arg, m_thread, m_cancel, m_user_dest_path,
                   queue, launched>>

\* the transfer of a version check succeeds: on_complete trims the body
http_complete_version(t, body) ==
    /\ thr[t].pc = "perform"
    /\ thr[t].kind = "version"
    /\ thr' = [thr EXCEPT ![t] = [@ EXCEPT !.body = trim(body),
                                            !.pc = "parse_version_string"]]
    /\ UNCHANGED <<platform, owner, owner_arg, m_thread, m_cancel, m_user_dest_path,
                   fs, queue, launched>>

\* ... and hands it to parse_version_string
version_parse(t) ==
    /\ thr[t].pc = "parse_version_string"
    /\ queue' = queue \o parse_version_string(thr[t].body)
    /\ thr' = [thr EXCEPT ![t] = [@ EXCEPT !.res = TRUE, !.pc = "parsed"]]
    /\ UNCHANGED <<platform, owner, owner_arg, m_thread, m_cancel, m_user_dest_path,
                   fs, launched>>

\* the on_complete lambda of version_check returns true, and version_check returns
version_check_return(t) ==
    /\ thr[t].pc = "parsed"
    /\ thr' = [thr EXCEPT ![t] = Finished]
    /\ UNCHANGED <<platform, owner, owner_arg, m_thread, m_cancel, m_user_dest_path,
                   fs, queue, launched>>

(***************************************************************************)
(* The worker thread after download_file: run_downloaded_file, open_folder *)
(***************************************************************************)
Launch(op, path) == [op |-> op, path |-> path]

\* run_file: the command is executed when the file exists (win32, linux)
run_file_executes(path) == platform \in {"win32", "linux"} /\ path \in DOMAIN fs

\* the calls the lambda of sync_download makes once download_file has returned `path`
launcher_calls(path, start_after) ==
    IF path = <<>> THEN <<>>
    ELSE IF start_after THEN <<Launch("run_downloaded_file", path)>>
    ELSE IF platform = "win32" THEN <<Launch("open_folder", path)>>
    ELSE <<>>

\* the rest of the lambda of sync_download: the launcher calls, then the
\* command run_file executes.  CreateProcessW returns without waiting for the
\* process; std::system returns when the command has terminated
after_download(t) ==
    /\ thr[t].pc = "returned"
    /\ LET path == thr[t].result
           calls == launcher_calls(path, thr[t].start_after)
           executes == /\ calls # <<>>
                       /\ calls[1].op = "run_downloaded_file"
                       /\ run_file_executes(path)
       IN  /\ launched' = launched \o calls \o
                              (IF executes THEN <<Launch("run_file", path)>> ELSE <<>>)
           /\ thr' = [thr EXCEPT ![t] =
                        IF executes /\ platform = "linux"
                        THEN [@ EXCEPT !.pc = "system"]
                        ELSE Finished]
    /\ UNCHANGED <<platform, owner, owner_arg, m_thread, m_cancel, m_user_dest_path,
                   fs, queue>>

\* the launched command terminates and std::system returns
system_returns(t) ==
    /\ thr[t].pc = "system"
    /\ thr' = [thr EXCEPT ![t] = Finished]
    /\ UNCHANGED <<platform, owner, owner_arg, m_thread, m_cancel, m_user_dest_path,
                   fs, queue, launched>>

(***************************************************************************)
(* Specifications.                                                         *)
(***************************************************************************)
OwnerNext ==
    \/ \E url \in Urls, start_after \in BOOLEAN :
          sync_download(DownloadAppData(url, start_after))
    \/ sync_download_joined
    \/ sync_version(VersionUrl)
    \/ sync_version_joined
    \/ cancel
    \/ \E dest \in UserPaths : set_dest_path(dest)
    \/ set_dest_path_assigned
    \/ destructor
    \/ destructor_joined

\* the steps of a worker that do not wait for anything outside the program,
\* with the version bodies the server may return
WorkerNextWith(version_bodies) ==
    \/ \E t \in Threads : download_file_begin(t)
    \/ \E t \in Threads, progress \in ProgressValues : http_progress(t, progress, MaxProgress)
    \/ \E t \in Threads : http_error(t)
    \/ \E t \in Threads, body \in DownloadBodies :
          \E io \in IoOutcomes(body) : http_complete_download(t, body, io)
    \/ \E t \in Threads, body \in version_bodies : http_complete_version(t, body)
    \/ \E t \in Threads : version_parse(t)
    \/ \E t \in Threads : version_check_return(t)
    \/ \E t \in Threads : after_download(t)

WorkerNext == WorkerNextWith(VersionBodies)

Next ==
    \/ OwnerNext
    \/ WorkerNext
    \/ \E t \in Threads : system_returns(t)

Spec == Init /\ [][Next]_vars

\* FairSpec: the same program with single-line version bodies, whose threads are
\* scheduled and whose join() returns once its thread has finished; nothing
\* makes a launched command terminate
FairVersionBodies == {<<"1", ".", "2", ".", "3">>, <<"x">>}

FairWorkerNext == WorkerNextWith(FairVersionBodies)

FairNext ==
    \/ OwnerNext
    \/ FairWorkerNext
    \/ \E t \in Threads : system_returns(t)

FairSpec ==
    /\ Init /\ [][FairNext]_vars
    /\ WF_vars(FairWorkerNext)
    /\ WF_vars(sync_download_joined)
    /\ WF_vars(sync_version_joined)
    /\ WF_vars(destructor_joined)

(***************************************************************************)
(* SpecParse: parse_version_string on the bodies a version check can       *)
(* receive.  A body is a first line followed by up to MaxLines lines, all  *)
(* ended by LF or by CR LF, trimmed as version_check trims it.             *)
(***************************************************************************)
V123 == <<"1", ".", "2", ".", "3">>
V130alpha == <<"1", ".", "3", ".", "0", "-", "a", "l", "p", "h", "a">>
V140beta == <<"1", ".", "4", ".", "0", "-", "b", "e", "t", "a">>
V100alpha == <<"1", ".", "0", ".", "0", "-", "a", "l", "p", "h", "a">>
V130 == <<"1", ".", "3", ".", "0">>
V130beta == <<"1", ".", "3", ".", "0", "-", "b", "e", "t", "a">>

FirstLines == {V123, V130beta, <<"x">>}

OtherLines ==
    { ALPHA \o V130alpha, BETA \o V140beta, ALPHA \o V100alpha, BETA \o V130,
      ALPHA \o <<"x">>, BETA, <<"x", "=">> \o V140beta }

LineEnds == {<<"LF">>, <<"CR", "LF">>}

RECURSIVE JoinLines(_, _)
JoinLines(lines, end) ==
    IF lines = <<>> THEN <<>>
    ELSE Head(lines) \o end \o JoinLines(Tail(lines), end)

RawBodies ==
    { JoinLines(<<first>> \o rest, end) :
        first \in FirstLines,
        rest \in UNION {[1..n -> OtherLines] : n \in 0..MaxLines},
        end \in LineEnds }

\* the owner is idle and the only thread is in `pc` with the locals `locals`
InitWith(locals) ==
    /\ platform = "linux"
    /\ owner = "idle"
    /\ owner_arg = NoArg
    /\ m_thread = 1
    /\ m_cancel = FALSE
    /\ m_user_dest_path = <<>>
    /\ thr = <<locals>>
    /\ fs = <<>>
    /\ queue = <<>>
    /\ launched = <<>>

InitParse ==
    \E raw \in RawBodies :
        InitWith([NewThread(VersionArg(VersionUrl)) EXCEPT
                                !.body = trim(raw), !.pc = "parse_version_string"])

NextParse ==
    \/ \E t \in Threads : version_parse(t)
    \/ \E t \in Threads : version_check_return(t)

SpecParse == InitParse /\ [][NextParse]_vars

(***************************************************************************)
(* SpecProgress: one download in its transfer, with up to MaxSamples       *)
(* progress callbacks, its completion, and the owner's cancel.             *)
(***************************************************************************)
ProgressSamples ==
    { Progress(0, 0), Progress(1, 0), Progress(0, 4), Progress(1, 4),
      Progress(2, 4), Progress(3, 4), Progress(4, 4) }

InitProgress ==
    \E url \in Urls :
        InitWith([NewThread(DownloadAppData(url, FALSE)) EXCEPT
                                 !.dest_path = resolve_dest_path(<<>>, <<>>, url),
                                 !.pc = "perform"])

NextProgress ==
    \/ \E t \in Threads, progress \in ProgressSamples : http_progress(t, progress, MaxSamples)
    \/ \E t \in Threads, body \in DownloadBodies :
          \E io \in IoOutcomes(body) : http_complete_download(t, body, io)
    \/ cancel

SpecProgress == InitProgress /\ [][NextProgress]_vars

(***************************************************************************)
(* Vocabulary of the properties.                                           *)
(***************************************************************************)
RunningThreads == {t \in Threads : Running(t)}

\* the lines of a text: the pieces between its line-break characters
RECURSIVE SplitLines(_)
SplitLines(s) ==
    LET nl == find_first_of(s, Newline, 0)
    IN  IF nl = npos THEN <<s>>
        ELSE <<SubSeq(s, 1, nl)>> \o SplitLines(SubSeq(s, nl + 2, Len(s)))

HasPrefix(line, prefix) ==
    Len(line) >= Len(prefix) /\ SubSeq(line, 1, Len(prefix)) = prefix

IsPrereleaseLine(line) == HasPrefix(line, ALPHA) \/ HasPrefix(line, BETA)

\* the text after `alpha=` or `beta=`
PrereleaseText(line) ==
    IF HasPrefix(line, ALPHA) THEN SubSeq(line, Len(ALPHA) + 1, Len(line))
    ELSE SubSeq(line, Len(BETA) + 1, Len(line))

IsSemver(text) == Semver_parse(text).valid

FirstLine(body) == SplitLines(body)[1]

\* the alpha= / beta= lines after the first line
PrereleaseLines(body) ==
    LET lines == SplitLines(body)
    IN  {lines[i] : i \in {j \in 2..Len(lines) : IsPrereleaseLine(lines[j])}}

HasInvalidPrerelease(body) ==
    \E line \in PrereleaseLines(body) : ~IsSemver(PrereleaseText(line))

\* first line a semantic version, every alpha= / beta= line a semantic version
ParsesSuccessfully(body) ==
    IsSemver(FirstLine(body)) /\ ~HasInvalidPrerelease(body)

\* a semantic version on the first line, then only alpha= / beta= lines with
\* semantic versions (and the empty lines a CR LF line end leaves between them)
WellFormed(body) ==
    LET lines == SplitLines(body)
    IN  /\ IsSemver(lines[1])
        /\ \A i \in 2..Len(lines) :
              \/ lines[i] = <<>>
              \/ IsPrereleaseLine(lines[i]) /\ IsSemver(PrereleaseText(lines[i]))

EventsOf(type) == SelectSeq(queue, LAMBDA e : e.type = type)

\* the threads that are back from parse_version_string, with the body still in scope
Parsed == {t \in Threads : thr[t].pc = "parsed"}

\* the percentage of a progress sample
Percent(progress) ==
    IF progress.dltotal = 0 THEN 0 ELSE (100 * progress.dlnow) \div progress.dltotal

\* the percentages of the download-progress events in a queue, oldest first
Published(q) ==
    LET evts == SelectSeq(q, LAMBDA e : e.type = EVT_SLIC3R_APP_DOWNLOAD_PROGRESS)
    IN  [i \in 1..Len(evts) |-> NumberValue(evts[i].str)]

LastPublished(q) ==
    IF Published(q) = <<>> THEN 0 ELSE Published(q)[Len(Published(q))]

PercentsOf(samples) == [i \in 1..Len(samples) |-> Percent(samples[i])]

\* download_file has returned in thread t
Returned(t) == thr[t].pc = "returned"

\* the first progress callback of the download in thread t is the one that just
\* ran, and it read the cancel flag as set
FirstCallbackCancelled(t) ==
    thr[t].kind = "download" /\ Len(thr[t].samples) = 1 /\ thr[t].cancel

IoFailed(io, body) == ~io.open \/ io.written < Len(body) \/ ~io.rename

(***************************************************************************)
(* C1: at most one worker thread is running in every reachable state, and  *)
(* a step that spawns a worker while m_thread is joinable finds the cancel *)
(* flag set and the previous worker terminated.                            *)
(***************************************************************************)
C1_Spawn ==
    Len(thr') > Len(thr) =>
        (m_thread # 0 => m_cancel /\ ~Running(m_thread))

C1_OneWorker ==
    /\ [](Cardinality(RunningThreads) <= 1)
    /\ [][C1_Spawn]_vars

\* the second worker runs its transfer after the first one, which was running
\* when the owner asked for it, was cancelled and joined
C1_Witness ==
    /\ Len(thr) = 2
    /\ thr[1] = Finished
    /\ thr[2].pc = "perform"
    /\ thr[2].samples # <<>>

C3_Step ==
    \A t \in Threads :
        (thr[t].kind = "download" /\ Len(thr'[t].samples) = Len(thr[t].samples) + 1) =>
            LET current == Percent(thr'[t].samples[Len(thr'[t].samples)])
                last_published == LastPublished(queue)
            IN  IF last_published < current /\ ~(last_published = 0 /\ current = 100)
                THEN queue' = Append(queue, Event(EVT_SLIC3R_APP_DOWNLOAD_PROGRESS,
                                                  to_string(current)))
                ELSE queue' = queue

C3_Increasing ==
    \A i, j \in 1..Len(Published(queue)) :
        i < j => Published(queue)[i] < Published(queue)[j]

C3_Example ==
    \A t \in Threads :
        PercentsOf(thr[t].samples) = <<0, 0, 50, 100>> => Published(queue) = <<50, 100>>

C3_Progress ==
    /\ [](C3_Increasing /\ C3_Example)
    /\ [][C3_Step]_vars

C3_Witness ==
    \E t \in Threads :
        /\ PercentsOf(thr[t].samples) = <<0, 0, 50, 100>>
        /\ Published(queue) = <<50, 100>>

(***************************************************************************)
(* C4: when the cancel flag is set at the first progress callback of a     *)
(* download, that callback ends the transfer: download_file returns an     *)
(* empty path, and from then on the thread writes no file and makes no     *)
(* launcher call.                                                          *)
(***************************************************************************)
C4_FirstCallback ==
    \A t \in Threads :
        (/\ thr[t].kind = "download"
         /\ thr[t].pc = "perform"
         /\ thr[t].samples = <<>>
         /\ m_cancel
         /\ Len(thr'[t].samples) = 1)
        => /\ Returned(t)'
           /\ thr'[t].result = <<>>
           /\ FirstCallbackCancelled(t)'
           /\ fs' = fs
           /\ launched' = launched

C4_Afterwards ==
    \A t \in Threads :
        FirstCallbackCancelled(t) =>
            /\ thr'[t] = thr[t] \/ thr'[t] = Finished
            /\ fs' = fs
            /\ launched' = launched

C4_CancelBeforeFirstCallback ==
    /\ [](\A t \in Threads : FirstCallbackCancelled(t) => Returned(t) /\ thr[t].result = <<>>)
    /\ [][C4_FirstCallback /\ C4_Afterwards]_vars

\* cancel() came while the download was running, and the first callback saw it
C4_Witness ==
    \E t \in Threads :
        /\ FirstCallbackCancelled(t)
        /\ Returned(t)
        /\ owner = "idle"
        /\ m_thread = t

(***************************************************************************)
(* C5, as stated: whenever download_file returns a non-empty path, the     *)
(* destination file exists and holds the whole response body, and the      *)
(* temporary file is gone.                                                 *)
(***************************************************************************)
C5_RoundTrip ==
    \A t \in Threads :
        (Returned(t) /\ thr[t].result # <<>>) =>
            /\ thr[t].result \in DOMAIN fs
            /\ fs[thr[t].result] = thr[t].body
            /\ tmp_path_of(thr[t].result) \notin DOMAIN fs

(***************************************************************************)
(* C6, as stated: a failure to open or write the temporary file or to      *)
(* rename it makes download_file return an empty path, and download_file   *)
(* never returns the destination while that file is missing or holds only  *)
(* a part of the body.                                                     *)
(***************************************************************************)
C6_IoFailureFails ==
    \A t \in Threads :
        Returned(t) =>
            /\ (thr[t].io.used /\ IoFailed(thr[t].io, thr[t].body)) => thr[t].result = <<>>
            /\ thr[t].result # <<>> =>
                  /\ thr[t].result \in DOMAIN fs
                  /\ Len(fs[thr[t].result]) >= Len(thr[t].body)

(***************************************************************************)
(* C7: for a body that parses, an experimental version event is queued iff *)
(* some alpha / beta version is greater than the release version, and it   *)
(* carries one that no other of them exceeds.                              *)
(***************************************************************************)
C7_Experimental ==
    \A t \in Parsed :
        ParsesSuccessfully(thr[t].body) =>
            LET release == Semver_parse(FirstLine(thr[t].body))
                newer == {PrereleaseText(line) : line \in
                            {l \in PrereleaseLines(thr[t].body) :
                                Semver_less(release, Semver_parse(PrereleaseText(l)))}}
                experimental == EventsOf(EVT_SLIC3R_EXPERIMENTAL_VERSION_ONLINE)
            IN  /\ (experimental # <<>>) <=> (newer # {})
                /\ \A i \in 1..Len(experimental) :
                      /\ experimental[i].str \in newer
                      /\ \A v \in newer :
                            ~Semver_less(Semver_parse(experimental[i].str), Semver_parse(v))

\* release 1.2.3 with alpha=1.3.0-alpha and beta=1.4.0-beta gives 1.4.0-beta
C7_Witness ==
    \E t \in Parsed :
        /\ thr[t].body = V123 \o <<"LF">> \o ALPHA \o V130alpha \o <<"LF">> \o BETA \o V140beta
        /\ EventsOf(EVT_SLIC3R_EXPERIMENTAL_VERSION_ONLINE)
              = <<Event(EVT_SLIC3R_EXPERIMENTAL_VERSION_ONLINE, V140beta)>>

(***************************************************************************)
(* C8: a well-formed body queues exactly one release version event, with   *)
(* the first line as its string, and at most one experimental version      *)
(* event, and nothing else.                                                *)
(***************************************************************************)
C8_WellFormed ==
    \A t \in Parsed :
        WellFormed(thr[t].body) =>
            /\ EventsOf(EVT_SLIC3R_VERSION_ONLINE)
                  = <<Event(EVT_SLIC3R_VERSION_ONLINE, FirstLine(thr[t].body))>>
            /\ Len(EventsOf(EVT_SLIC3R_EXPERIMENTAL_VERSION_ONLINE)) <= 1
            /\ Len(queue) = 1 + Len(EventsOf(EVT_SLIC3R_EXPERIMENTAL_VERSION_ONLINE))

C8_Witness ==
    \E t \in Parsed :
        /\ WellFormed(thr[t].body)
        /\ Len(SplitLines(thr[t].body)) >= 3
        /\ Len(queue) = 2

(***************************************************************************)
(* C9: a body whose first line is no semantic version queues no event,     *)
(* whatever its later lines are.                                           *)
(***************************************************************************)
C9_InvalidRelease ==
    \A t \in Parsed :
        ~IsSemver(FirstLine(thr[t].body)) => queue = <<>>

C9_Witness ==
    \E t \in Parsed :
        /\ ~IsSemver(FirstLine(thr[t].body))
        /\ \E line \in PrereleaseLines(thr[t].body) : IsSemver(PrereleaseText(line))
        /\ queue = <<>>

(***************************************************************************)
(* C10, as stated: the destructor sets the cancel flag when it has a       *)
(* thread to join, no worker is running once it has returned, and a        *)
(* destructor that waits in join() eventually returns.                     *)
(***************************************************************************)
C10_Destructor ==
    /\ [](owner = "destructor_join" => m_cancel)
    /\ [](owner = "destroyed" => RunningThreads = {})
    /\ (owner = "destructor_join") ~> (owner = "destroyed")

(***************************************************************************)
(* Vocabulary of the launcher properties.                                  *)
(***************************************************************************)
\* the launcher calls and executions a step adds
Added == SubSeq(launched', Len(launched) + 1, Len(launched'))

\* the lambda of sync_download goes on in thread t
LambdaContinues(t) == Returned(t) /\ thr'[t] # thr[t]

\* the download of thread t has failed: download_file returned the empty
\* path, or the staging of the file failed
DownloadFailed(t) ==
    \/ thr[t].result = <<>>
    \/ thr[t].io.used /\ IoFailed(thr[t].io, thr[t].body)

(***************************************************************************)
(* C11, as stated: a launcher call is made only by the worker whose        *)
(* download_file has returned a path; with start_after that call is        *)
(* run_downloaded_file on this path, without it open_folder on this path   *)
(* where the platform has it; and after a download that failed, by an      *)
(* empty destination, a transport error, a cancellation or a staging       *)
(* failure, no launcher call is made.                                      *)
(***************************************************************************)
C11_AfterDownload ==
    \A t \in Threads :
        LambdaContinues(t) =>
            /\ DownloadFailed(t) => Added = <<>>
            /\ (~DownloadFailed(t) /\ thr[t].start_after) =>
                  /\ Added # <<>>
                  /\ Added[1] = Launch("run_downloaded_file", thr[t].result)
            /\ (~DownloadFailed(t) /\ ~thr[t].start_after) =>
                  Added = IF platform = "win32"
                          THEN <<Launch("open_folder", thr[t].result)>>
                          ELSE <<>>

C11_LauncherOnlyOnSuccess ==
    [][/\ C11_AfterDownload
       /\ Added # <<>> => \E t \in Threads : LambdaContinues(t)]_vars

\* thread t is inside run_file, waiting for the command it executed to terminate
WaitsForCommand(t) == thr[t].pc = "system"

(***************************************************************************)
(* C12, as stated: on every platform run_file returns to the worker        *)
(* without waiting for the command it executed, so no worker thread, and   *)
(* no join() on it, ever waits for a launched artifact to terminate.       *)
(***************************************************************************)
C12_FireAndForget ==
    /\ \A t \in Threads : ~WaitsForCommand(t)
    /\ (owner # "idle" /\ joinable) => ~WaitsForCommand(m_thread)

\* the owner is inside set_dest_path, writing m_user_dest_path
WritesDestPath == owner = "set_dest_path"

\* thread t is about to read m_user_dest_path
ReadsDestPath(t) == thr[t].pc = "download_file"

(***************************************************************************)
(* C13, as stated: m_user_dest_path is written only while no worker thread *)
(* is running, and the write of set_dest_path never overlaps the read of   *)
(* the field by a running download.                                        *)
(***************************************************************************)
C13_DestPathWrittenAtRest ==
    /\ WritesDestPath => RunningThreads = {}
    /\ \A t \in Threads : ReadsDestPath(t) => ~WritesDestPath

(***************************************************************************)
(* SpecDest: the destination download_file resolves, for the URLs of up to *)
(* MaxUrlLen characters and the user paths set_dest_path has stored before *)
(* the download was started.                                               *)
(***************************************************************************)
MaxUrlLen == 4

UrlChars == {"h", "/", "f"}

DestUrls == UNION {[1..n -> UrlChars] : n \in 1..MaxUrlLen}

InitDest ==
    \E url \in DestUrls, dest \in UserPaths, start_after \in BOOLEAN :
        /\ platform = "linux"
        /\ owner = "idle"
        /\ owner_arg = NoArg
        /\ m_thread = 1
        /\ m_cancel = FALSE
        /\ m_user_dest_path = dest
        /\ thr = <<NewThread(DownloadAppData(url, start_after))>>
        /\ fs = <<>>
        /\ queue = <<>>
        /\ launched = <<>>

NextDest == \E t \in Threads : download_file_begin(t)

SpecDest == InitDest /\ [][NextDest]_vars

\* the part of a URL after its last '/', the whole URL when it has none
LastSegment(url) ==
    LET start == CHOOSE k \in 1..(Len(url) + 1) :
                    /\ \A i \in k..Len(url) : url[i] # "/"
                    /\ k = 1 \/ url[k - 1] = "/"
    IN  SubSeq(url, start, Len(url))

\* a folder joined with a path segment
Joined(folder, segment) ==
    IF segment = <<>> THEN folder ELSE folder \o <<"/">> \o segment

\* download_file has resolved its destination in thread t
Resolved(t) == thr[t].kind = "download" /\ thr[t].pc = "perform"

(***************************************************************************)
(* C14: the destination download_file resolves is the user path whenever   *)
(* that path is not empty, whatever the URL; when it is empty, it is the   *)
(* default folder joined with the part of the URL after its last '/', the  *)
(* whole URL when the URL has no '/'.                                      *)
(***************************************************************************)
C14_Destination ==
    \A t \in Threads :
        Resolved(t) =>
            thr[t].dest_path =
                IF m_user_dest_path # <<>> THEN m_user_dest_path
                ELSE Joined(m_default_dest_folder, LastSegment(thr[t].url))

\* no user path, and a URL with two '/': the file name is what follows the last
C14_Witness ==
    \E t \in Threads :
        /\ Resolved(t)
        /\ m_user_dest_path = <<>>
        /\ thr[t].url = <<"h", "/", "/", "f">>
        /\ thr[t].dest_path = <<"d", "/", "c", "/", "f">>

\* a user path, and a URL that names another file
C14_UserPathWins ==
    \E t \in Threads :
        /\ Resolved(t)
        /\ thr[t].url = <<"h", "/", "f">>
        /\ thr[t].dest_path = <<"u">>

\* download_file in thread t has resolved an empty destination
EmptyDestination(t) ==
    thr[t].kind = "download" /\ thr[t].pc # "download_file" /\ thr[t].dest_path = <<>>

(***************************************************************************)
(* C15: when the destination download_file resolves is empty, it returns   *)
(* the empty path in the same step, with no transfer started, and the      *)
(* thread has no progress callback, queues no event and writes no file,    *)
(* then or later.                                                          *)
(***************************************************************************)
C15_Resolve ==
    \A t \in Threads :
        (ReadsDestPath(t) /\ EmptyDestination(t)') =>
            /\ Returned(t)'
            /\ queue' = queue
            /\ fs' = fs

C15_Afterwards ==
    \A t \in Threads :
        EmptyDestination(t) =>
            /\ thr'[t] = thr[t] \/ thr'[t] = Finished
            /\ thr'[t] # thr[t] => queue' = queue /\ fs' = fs /\ launched' = launched

Spawns == Len(thr') = Len(thr) + 1

(***************************************************************************)
(* C16: the cancel flag is false in the state every spawn of a worker      *)
(* leaves, whatever it was before, so a worker starts uncancelled; and a   *)
(* progress callback is told to cancel only when the flag is set at the    *)
(* time of the callback, that is, by a step after the spawn.               *)
(***************************************************************************)
C16_Spawn ==
    Spawns =>
        /\ ~m_cancel'
        /\ m_thread' = Len(thr')
        /\ thr'[m_thread'].samples = <<>>
        /\ ~thr'[m_thread'].cancel

C16_Callback ==
    \A t \in Threads : (~thr[t].cancel /\ thr'[t].cancel) => m_cancel

C16_CancelClearedAtSpawn == [][C16_Spawn /\ C16_Callback]_vars

\* the second worker has just been spawned by a sync call that had set the
\* flag to join the first one: the flag is clear again
C16_Witness ==
    /\ Len(thr) = 2
    /\ m_thread = 2
    /\ thr[2].pc \in {"download_file", "perform"}
    /\ thr[2].samples = <<>>
    /\ thr[1] = Finished
    /\ owner = "idle"
    /\ ~m_cancel

\* the step is a progress callback of thread t that reads the cancel flag as set
CallbackReadsCancel(t) ==
    /\ thr[t].pc = "perform"
    /\ m_cancel
    /\ Len(thr'[t].samples) = Len(thr[t].samples) + 1

\* a progress callback of thread t has read the cancel flag as set
CancelRead(t) == thr[t].kind = "download" /\ thr[t].cancel

\* after a callback has read the flag as set: the transfer is over, so there is
\* no later callback and no completion; no event is queued and no file written
C17_Afterwards ==
    \A t \in Threads :
        CancelRead(t) =>
            /\ thr'[t].samples = thr[t].samples
            /\ queue' = queue
            /\ fs' = fs

(***************************************************************************)
(* C17, as stated: once a progress callback of a download has read the     *)
(* cancel flag as set, neither that callback nor a later one queues a      *)
(* download-progress event, and the completion callback never runs.        *)
(***************************************************************************)
C17_Original ==
    /\ [](\A t \in Threads : CancelRead(t) => thr[t].pc # "perform" /\ ~thr[t].io.used)
    /\ [][/\ \A t \in Threads : CallbackReadsCancel(t) => CancelRead(t)' /\ queue' = queue
          /\ C17_Afterwards]_vars

(***************************************************************************)
(* C17, corrected: once a progress callback of a download has read the     *)
(* cancel flag as set, the transfer is over: no later callback runs, no    *)
(* later download-progress event is queued and the completion callback     *)
(* never runs.  The callback that reads the flag as set still hands its    *)
(* sample to the progress function of download_file, which queues at most  *)
(* one event for it, under the same condition as for any other sample.     *)
(***************************************************************************)
C17_NothingAfterCancelRead ==
    /\ [](\A t \in Threads : CancelRead(t) => thr[t].pc # "perform" /\ ~thr[t].io.used)
    /\ [][/\ \A t \in Threads :
                CallbackReadsCancel(t) =>
                    /\ CancelRead(t)'
                    /\ fs' = fs
                    /\ Published(queue') \in
                          {Published(queue),
                           Append(Published(queue), Percent(thr'[t].samples[Len(thr'[t].samples)]))}
          /\ C17_Afterwards]_vars

\* the second callback read the flag as set and still published its 50
C17_Witness ==
    \E t \in Threads :
        /\ CancelRead(t)
        /\ Returned(t)
        /\ PercentsOf(thr[t].samples) = <<25, 50>>
        /\ Published(queue) = <<25, 50>>
        /\ fs = <<>>

\* every sample of thread t so far is at 0 or at 100 percent
OnlyZeroOrFull(t) ==
    \A i \in 1..Len(thr[t].samples) : Percent(thr[t].samples[i]) \in {0, 100}

(***************************************************************************)
(* C18: a download-progress event of 100 is queued only after an event of  *)
(* the same download with a value strictly between 0 and 100; a download   *)
(* whose samples are all at 0 or at 100 percent queues no download-progress*)
(* event, and it can complete with its file staged all the same.           *)
(***************************************************************************)
C18_FullNeverFirst ==
    /\ \A i \in 1..Len(Published(queue)) :
          Published(queue)[i] = 100 =>
              \E j \in 1..(i - 1) : 0 < Published(queue)[j] /\ Published(queue)[j] < 100
    /\ \A t \in Threads :
          (thr[t].kind = "download" /\ OnlyZeroOrFull(t)) => Published(queue) = <<>>

\* samples at 0 and 100 only, the transfer complete and the file staged, no event
C18_Witness ==
    \E t \in Threads :
        /\ Returned(t)
        /\ thr[t].result # <<>>
        /\ thr[t].result \in DOMAIN fs
        /\ PercentsOf(thr[t].samples) = <<0, 100, 100>>
        /\ queue = <<>>

\* the events a step queues
Queued == SubSeq(queue', Len(queue) + 1, Len(queue'))

\* the step is the parse_version_string of thread t
Parses(t) == thr[t].pc = "parse_version_string" /\ thr'[t].pc = "parsed"

(***************************************************************************)
(* C19: whenever a version check queues an experimental-version event, it  *)
(* has queued its release-version event, the first line of the same body,  *)
(* strictly before it; an experimental-version event is never queued       *)
(* without one.                                                            *)
(***************************************************************************)
C19_Parse ==
    \A t \in Threads :
        Parses(t) =>
            \A i \in 1..Len(Queued) :
                Queued[i].type = EVT_SLIC3R_EXPERIMENTAL_VERSION_ONLINE =>
                    \E j \in 1..(i - 1) :
                        Queued[j] = Event(EVT_SLIC3R_VERSION_ONLINE, FirstLine(thr[t].body))

C19_ReleaseBeforeExperimental ==
    [][/\ C19_Parse
       /\ (\E i \in 1..Len(Queued) :
              Queued[i].type = EVT_SLIC3R_EXPERIMENTAL_VERSION_ONLINE)
          => \E t \in Threads : Parses(t)]_vars

\* release 1.2.3 and beta 1.4.0-beta: the release event, then the experimental one
C19_Witness ==
    \E t \in Parsed :
        /\ Len(queue) = 2
        /\ queue[1] = Event(EVT_SLIC3R_VERSION_ONLINE, V123)
        /\ queue[2] = Event(EVT_SLIC3R_EXPERIMENTAL_VERSION_ONLINE, V140beta)

====
